---- MODULE Spec2Model ----
(***************************************************************************)
(* Document store adapter of the embeddings cloud functions:               *)
(*   save-embeddings/main.py, retrieve-embeddings/main.py,                 *)
(*   delete-embeddings/main.py                                             *)
(* over one Cloud Storage bucket.                                          *)
(*                                                                         *)
(* Strings that take part in object names are modelled by their            *)
(* '/'-separated segments: the Python string "a/b" is <<"a", "b">>, the    *)
(* empty string is <<"">>.  An object name is therefore exactly the value  *)
(* of  name.split('/')  in the code.                                       *)
(***************************************************************************)
EXTENDS Integers, Sequences, FiniteSets, TLC

VARIABLES
    bucketExists,   \* the bucket 'myformsnapper-embeddings' exists
    store,          \* object name -> text, the blobs of the bucket
    last,           \* the latest request served and its response
    saved,          \* history: what the latest successful Save of a document held
    procs,          \* concurrent invocations: where each one is in its handler
    started,        \* number of concurrent invocations started so far
    hist            \* history of the concurrent invocations

vars == <<bucketExists, store, last, saved, procs, started, hist>>

(***************************************************************************)
(* Bounds of the model                                                     *)
(***************************************************************************)
UserIds == { <<"u1">>, <<"u2">> }
\* "" , "a" and "a/b"
DocIds == { <<"">>, <<"a">>, <<"a", "b">> }
NoId == <<>>

(***************************************************************************)
(* JSON values: [type, items].  A list holds chunk records, a dict holds   *)
(* key/value entries; chunk records and entries are opaque to the program  *)
(* and are numbered.                                                       *)
(***************************************************************************)
JList(s) == [type |-> "list", items |-> s]
JDict(s) == [type |-> "dict", items |-> s]
JNull == [type |-> "null", items |-> <<>>]

\* The longest chunk array a request carries
MaxChunks == 2

\* What a Save request carries: one chunk with a one-entry metadata record,
\* or MaxChunks other chunks with an empty metadata record
Payloads ==
    { [chunks |-> JList(<<1>>), metadata |-> JDict(<<1>>)],
      [chunks |-> JList([i \in 1..MaxChunks |-> i + 1]), metadata |-> JDict(<<>>)] }
Items == 1..(MaxChunks + 1)

RequiredFields == <<"userId", "documentId", "fileName", "chunks", "metadata">>

\* json.dumps: the text as a sequence of tokens
Separated(items) ==
    [i \in 1..(IF items = <<>> THEN 0 ELSE 2 * Len(items) - 1) |->
        IF i % 2 = 1 THEN ToString(items[(i + 1) \div 2]) ELSE ","]

JsonDumps(v) ==
    IF v.type = "list" THEN <<"[">> \o Separated(v.items) \o <<"]">>
    ELSE IF v.type = "dict" THEN <<"{">> \o Separated(v.items) \o <<"}">>
    ELSE <<"null">>

\* json.loads
ParseItem(tok) == CHOOSE n \in Items : ToString(n) = tok

JsonLoads(text) ==
    LET elems == [i \in 1..((Len(text) - 1) \div 2) |-> ParseItem(text[2 * i])]
    IN  IF text[1] = "[" THEN JList(elems)
        ELSE IF text[1] = "{" THEN JDict(elems)
        ELSE JNull

(***************************************************************************)
(* Object names and the bucket                                             *)
(***************************************************************************)
ChunksBlobName(u, d) == <<"users">> \o u \o <<"documents">> \o d \o <<"chunks.json">>
MetadataBlobName(u, d) == <<"users">> \o u \o <<"documents">> \o d \o <<"metadata.json">>
DocumentPrefix(u, d) == <<"users">> \o u \o <<"documents">> \o d
UserPrefix(u) == <<"users">> \o u \o <<"documents">>

\* name.startswith(prefix), where the prefix string ends with '/'
StartsWith(name, p) == Len(name) > Len(p) /\ SubSeq(name, 1, Len(p)) = p

\* byte order of the segments that occur in object names
SegRank(s) ==
    CASE s = "" -> 0
      [] s = "a" -> 1
      [] s = "b" -> 2
      [] s = "chunks.json" -> 3
      [] s = "documents" -> 4
      [] s = "metadata.json" -> 5
      [] s = "u1" -> 6
      [] s = "u2" -> 7
      [] s = "users" -> 8

RECURSIVE NameLess(_, _)
NameLess(a, b) ==
    IF a = <<>> THEN b # <<>>
    ELSE IF b = <<>> THEN FALSE
    ELSE IF a[1] = b[1] THEN NameLess(Tail(a), Tail(b))
    ELSE SegRank(a[1]) < SegRank(b[1])

RECURSIVE SortNames(_)
SortNames(S) ==
    IF S = {} THEN <<>>
    ELSE LET m == CHOOSE x \in S : \A y \in S \ {x} : NameLess(x, y)
         IN  <<m>> \o SortNames(S \ {m})

\* bucket.list_blobs(prefix=...): names in lexicographic order
ListBlobs(st, p) == SortNames({n \in DOMAIN st : StartsWith(n, p)})

\* blob.upload_from_string: create or overwrite
Upload(st, name, text) ==
    [n \in (DOMAIN st) \cup {name} |-> IF n = name THEN text ELSE st[n]]

\* blob.delete() for each blob of a listing
DeleteBlobs(st, names) == [n \in (DOMAIN st) \ names |-> st[n]]

Range(s) == {s[i] : i \in DOMAIN s}

Max(S) == CHOOSE x \in S : \A y \in S : y <= x
Min(S) == CHOOSE x \in S : \A y \in S : x <= y

EmptyStore == [n \in {} |-> <<>>]

(***************************************************************************)
(* Requests and responses                                                  *)
(***************************************************************************)
\* A JSON body: the set of keys it holds and their values; a key that is
\* absent carries a placeholder that no handler reads.
Body(present, u, d, f, c, m) ==
    [present |-> present, userId |-> u, documentId |-> d, fileName |-> f,
     chunks |-> c, metadata |-> m]

AllFields == Range(RequiredFields)

BaseSave == Body(AllFields, <<"u1">>, <<"a">>, "resume.pdf", JList(<<1>>), JDict(<<1>>))

Without(b, f) ==
    Body(b.present \ {f},
         IF f = "userId" THEN NoId ELSE b.userId,
         IF f = "documentId" THEN NoId ELSE b.documentId,
         IF f = "fileName" THEN "" ELSE b.fileName,
         IF f = "chunks" THEN JNull ELSE b.chunks,
         IF f = "metadata" THEN JNull ELSE b.metadata)

\* bodies with every field, a storable chunk array and a metadata object
WellFormedSaves ==
    { Body(AllFields, u, d, "resume.pdf", p.chunks, p.metadata) :
        u \in UserIds, d \in DocIds, p \in Payloads }
    \cup { [BaseSave EXCEPT !.fileName = ""] }

\* bodies the validation is about: a field absent, no body, a chunks value
\* that is no array or an empty one
MalformedSaves ==
    { Without(BaseSave, f) : f \in AllFields }
    \cup { Body({}, NoId, NoId, "", JNull, JNull) }
    \cup { [BaseSave EXCEPT !.chunks = c] : c \in {JNull, JList(<<>>)} }

SaveRequests == WellFormedSaves \cup MalformedSaves

\* {userId, documentId?}: documentId may be absent, and userId may be too
QueryRequests ==
    { Body({"userId", "documentId"}, u, d, "", JNull, JNull) : u \in UserIds, d \in DocIds }
    \cup { Body({"userId"}, u, NoId, "", JNull, JNull) : u \in UserIds }
    \cup { Body({"documentId"}, NoId, <<"a">>, "", JNull, JNull),
           Body({}, NoId, NoId, "", JNull, JNull) }

Response(status, error) ==
    [status |-> status, success |-> status = 200, error |-> error,
     chunks |-> <<>>, metadata |-> <<>>, documentsCount |-> -1,
     documentsDeleted |-> -1, chunksSaved |-> -1]

Outcome(resp, st, bkt, trace) ==
    [resp |-> resp, store |-> st, bucket |-> bkt, trace |-> trace]

\* Python truth value of request_json.get('documentId'): None and ''
\* are false
Truthy(d) == d # NoId /\ d # <<"">>

(***************************************************************************)
(* save-embeddings/main.py                                                 *)
(***************************************************************************)
\* What the object store can refuse during one Save
SaveFaults == {"none", "bucket.exists", "create_bucket", "upload_chunks", "upload_metadata"}

\* lines 87-94: get or create the bucket; any exception is swallowed
EnsureBucket(bkt, fault) ==
    IF fault = "bucket.exists" THEN [bucket |-> bkt, trace |-> <<"bucket.exists">>]
    ELSE IF bkt THEN [bucket |-> TRUE, trace |-> <<"bucket.exists">>]
    ELSE [bucket |-> fault # "create_bucket",
          trace |-> <<"bucket.exists", "create_bucket">>]

\* A Save that names its first object metadata.json
UploadChunksNamedMetadata(req, st) ==
    Upload(st, MetadataBlobName(req.userId, req.documentId), JsonDumps(req.chunks))

\* lines 98-103
UploadChunks(req, st) ==
    Upload(st, ChunksBlobName(req.userId, req.documentId), JsonDumps(req.chunks))

\* A Save that serialises the chunks a second time instead of the metadata
UploadMetadataFromChunks(req, st) ==
    Upload(st, MetadataBlobName(req.userId, req.documentId), JsonDumps(req.chunks))

\* lines 107-112
UploadMetadata(req, st) ==
    Upload(st, MetadataBlobName(req.userId, req.documentId), JsonDumps(req.metadata))

\* lines 96-112: chunks.json first, metadata.json second; an upload that
\* raises (the bucket is missing, or the store refuses) ends the handler
\* in the except branch with what was written so far
WriteDocument(req, st, bkt, fault) ==
    LET st1 == UploadChunks(req, st)
        st2 == UploadMetadata(req, st1)
    IN  IF ~bkt \/ fault = "upload_chunks"
        THEN [ok |-> FALSE, store |-> st, trace |-> <<"upload chunks.json">>]
        ELSE IF fault = "upload_metadata"
        THEN [ok |-> FALSE, store |-> st1,
              trace |-> <<"upload chunks.json", "upload metadata.json">>]
        ELSE [ok |-> TRUE, store |-> st2,
              trace |-> <<"upload chunks.json", "upload metadata.json">>]

\* lines 64-71: the first required field the body lacks
MissingField(req) ==
    LET miss == {i \in DOMAIN RequiredFields : RequiredFields[i] \notin req.present}
    IN  IF miss = {} THEN "" ELSE RequiredFields[Min(miss)]

\* A validation without the test for an empty array
SaveValidationWithoutEmptyTest(req) ==
    IF req.present = {} THEN <<"No JSON data provided">>
    ELSE IF MissingField(req) # "" THEN <<"Missing required field", MissingField(req)>>
    ELSE IF req.chunks.type # "list" THEN <<"chunks must be an array">>
    ELSE <<>>

\* lines 62-84: the error of a body that is turned away, <<>> for a body
\* that is let through
SaveValidation(req) ==
    IF req.present = {} THEN <<"No JSON data provided">>
    ELSE IF MissingField(req) # "" THEN <<"Missing required field", MissingField(req)>>
    ELSE IF req.chunks.type # "list" THEN <<"chunks must be an array">>
    ELSE IF Len(req.chunks.items) = 0 THEN <<"chunks array is empty">>
    ELSE <<>>

\* lines 122-129
Stored(req) == [Response(200, <<>>) EXCEPT !.chunksSaved = Len(req.chunks.items)]

save_embeddings(req, st, bkt, fault) ==
    IF SaveValidation(req) # <<>>
    THEN Outcome(Response(400, SaveValidation(req)), st, bkt, <<>>)
    ELSE LET b == EnsureBucket(bkt, fault)
             w == WriteDocument(req, st, b.bucket, fault)
         IN  IF w.ok
             THEN Outcome(Stored(req), w.store, b.bucket, b.trace \o w.trace)
             ELSE Outcome(Response(500, <<"storage error">>),
                          w.store, b.bucket, b.trace \o w.trace)

(***************************************************************************)
(* retrieve-embeddings/main.py                                             *)
(***************************************************************************)
\* line 126: the listed names that have a document and a file segment
WithDocumentSegment(blobs) == SelectSeq(blobs, LAMBDA n : Len(n) >= 5)

\* lines 122-133: the keys of `documents` in insertion order; parts[3] is
\* the element at position 4
RECURSIVE DocumentOrder(_, _)
DocumentOrder(q, seen) ==
    IF q = <<>> THEN <<>>
    ELSE IF q[1][4] \in seen THEN DocumentOrder(Tail(q), seen)
    ELSE <<q[1][4]>> \o DocumentOrder(Tail(q), seen \cup {q[1][4]})

\* documents[doc_id][file_type]: the last listed blob with these segments
\* (NoId when the key is absent)
DocumentFile(q, doc, fileType) ==
    LET idx == {i \in DOMAIN q : q[i][4] = doc /\ q[i][5] = fileType}
    IN  IF idx = {} THEN NoId ELSE q[Max(idx)]

\* lines 136-145
RECURSIVE CollectChunks(_, _, _)
CollectChunks(st, q, docs) ==
    IF docs = <<>> THEN <<>>
    ELSE LET b == DocumentFile(q, docs[1], "chunks.json")
         IN  (IF b = NoId THEN <<>> ELSE JsonLoads(st[b]).items)
             \o CollectChunks(st, q, Tail(docs))

RECURSIVE CollectMetadata(_, _, _)
CollectMetadata(st, q, docs) ==
    IF docs = <<>> THEN <<>>
    ELSE LET b == DocumentFile(q, docs[1], "metadata.json")
         IN  (IF b = NoId THEN <<>> ELSE <<JsonLoads(st[b])>>)
             \o CollectMetadata(st, q, Tail(docs))

\* lines 149-155
Retrieved(chunks, metadata) ==
    [Response(200, <<>>) EXCEPT !.chunks = chunks, !.metadata = metadata,
                                !.documentsCount = Len(metadata)]

\* A single-document Retrieve that answers a missing document like an empty
\* user
RetrieveDocumentLenient(u, d, st) ==
    LET chunksName == ChunksBlobName(u, d)
        metaName == MetadataBlobName(u, d)
    IN  IF chunksName \notin DOMAIN st
        THEN Retrieved(<<>>, <<>>)
        ELSE Retrieved(JsonLoads(st[chunksName]).items,
                       IF metaName \in DOMAIN st THEN <<JsonLoads(st[metaName])>> ELSE <<>>)

\* lines 85-112
RetrieveDocument(u, d, st) ==
    LET chunksName == ChunksBlobName(u, d)
        metaName == MetadataBlobName(u, d)
    IN  IF chunksName \notin DOMAIN st
        THEN Response(404, <<"Document not found">>)
        ELSE Retrieved(JsonLoads(st[chunksName]).items,
                       IF metaName \in DOMAIN st THEN <<JsonLoads(st[metaName])>> ELSE <<>>)

\* lines 114-147
RetrieveAll(u, st) ==
    LET q == WithDocumentSegment(ListBlobs(st, UserPrefix(u)))
        docs == DocumentOrder(q, {})
    IN  Retrieved(CollectChunks(st, q, docs), CollectMetadata(st, q, docs))

\* lines 58-65 (and delete-embeddings/main.py lines 44-51)
QueryValidation(req) ==
    IF req.present = {} THEN <<"No JSON data provided">>
    ELSE IF "userId" \notin req.present THEN <<"Missing required field", "userId">>
    ELSE <<>>

retrieve_embeddings(req, st, bkt) ==
    IF QueryValidation(req) # <<>>
    THEN Outcome(Response(400, QueryValidation(req)), st, bkt, <<>>)
    ELSE IF ~bkt
    THEN Outcome(Retrieved(<<>>, <<>>), st, bkt, <<"bucket.exists">>)
    ELSE IF Truthy(req.documentId)
    THEN Outcome(RetrieveDocument(req.userId, req.documentId, st), st, bkt,
                 <<"bucket.exists", "read">>)
    ELSE Outcome(RetrieveAll(req.userId, st), st, bkt, <<"bucket.exists", "list">>)

(***************************************************************************)
(* delete-embeddings/main.py                                               *)
(***************************************************************************)
\* lines 113-117
Deleted(n) == [Response(200, <<>>) EXCEPT !.documentsDeleted = n]

\* A specific-document Delete without the test for an empty listing
DeleteDocumentIdempotent(u, d, st, bkt) ==
    LET blobs == ListBlobs(st, DocumentPrefix(u, d))
    IN  Outcome(Deleted(1), DeleteBlobs(st, Range(blobs)), bkt,
                <<"bucket.exists", "list", "delete">>)

\* lines 68-86
DeleteDocument(u, d, st, bkt) ==
    LET blobs == ListBlobs(st, DocumentPrefix(u, d))
    IN  IF blobs = <<>>
        THEN Outcome(Response(404, <<"Document not found">>), st, bkt,
                     <<"bucket.exists", "list">>)
        ELSE Outcome(Deleted(1), DeleteBlobs(st, Range(blobs)), bkt,
                     <<"bucket.exists", "list", "delete">>)

\* lines 88-109
DeleteAll(u, st, bkt) ==
    LET blobs == ListBlobs(st, UserPrefix(u))
        documents == {n[4] : n \in Range(WithDocumentSegment(blobs))}
    IN  Outcome(Deleted(Cardinality(documents)), DeleteBlobs(st, Range(blobs)), bkt,
                <<"bucket.exists", "list"  >> \o (IF blobs = <<>> THEN <<>> ELSE <<"delete">>))

delete_embeddings(req, st, bkt) ==
    IF QueryValidation(req) # <<>>
    THEN Outcome(Response(400, QueryValidation(req)), st, bkt, <<>>)
    ELSE IF ~bkt
    THEN Outcome(Deleted(0), st, bkt, <<"bucket.exists">>)
    ELSE IF Truthy(req.documentId)
    THEN DeleteDocument(req.userId, req.documentId, st, bkt)
    ELSE DeleteAll(req.userId, st, bkt)

(***************************************************************************)
(* The service: one request at a time                                      *)
(***************************************************************************)
Keys == UserIds \X DocIds

Procs == {"A", "B"}

NoBody == Body({}, NoId, NoId, "", JNull, JNull)

\* An invocation: the handler, its request, the call the store will refuse,
\* the handler's position, the blobs it still has to visit, the documents
\* it counted, and its response once it has returned
Invocation(op, req, fault, pc, blobs, count, resp) ==
    [op |-> op, req |-> req, fault |-> fault, pc |-> pc, blobs |-> blobs,
     count |-> count, resp |-> resp]

Idle == Invocation("none", NoBody, "none", "idle", <<>>, 0, Response(0, <<>>))

NoHistory == [deleted |-> FALSE, overlap |-> FALSE]

NotSaved == [ok |-> FALSE, chunks |-> JNull, metadata |-> JNull]

Call(op, req, o) == [op |-> op, req |-> req, resp |-> o.resp, trace |-> o.trace]

\* The objects of document k before and after a request
ObjectsOf(k, st) ==
    [n \in {ChunksBlobName(k[1], k[2]), MetadataBlobName(k[1], k[2])} \cap DOMAIN st |-> st[n]]

\* saved[k]: the arguments of the latest successful Save of document k, as
\* long as no later request wrote or deleted an object of k
Remember(op, req, o) ==
    [k \in Keys |->
        IF op = "save" /\ o.resp.status = 200 /\ k = <<req.userId, req.documentId>>
        THEN [ok |-> TRUE, chunks |-> req.chunks, metadata |-> req.metadata]
        ELSE IF ObjectsOf(k, o.store) = ObjectsOf(k, store)
        THEN saved[k]
        ELSE NotSaved]

\* One request at a time, the store refuses at most the first upload of a
\* Save, which leaves no object behind
SequentialFaults(req) ==
    IF SaveValidation(req) = <<>> THEN {"none", "upload_chunks"} ELSE {"none"}

Save ==
    \E req \in SaveRequests : \E fault \in SequentialFaults(req) :
        \E o \in {save_embeddings(req, store, bucketExists, fault)} :
            /\ bucketExists' = o.bucket
            /\ store' = o.store
            /\ last' = Call("save", req, o)
            /\ saved' = Remember("save", req, o)
            /\ UNCHANGED <<procs, started, hist>>

Retrieve ==
    \E req \in QueryRequests :
        \E o \in {retrieve_embeddings(req, store, bucketExists)} :
            /\ bucketExists' = o.bucket
            /\ store' = o.store
            /\ last' = Call("retrieve", req, o)
            /\ saved' = Remember("retrieve", req, o)
            /\ UNCHANGED <<procs, started, hist>>

Delete ==
    \E req \in QueryRequests :
        \E o \in {delete_embeddings(req, store, bucketExists)} :
            /\ bucketExists' = o.bucket
            /\ store' = o.store
            /\ last' = Call("delete", req, o)
            /\ saved' = Remember("delete", req, o)
            /\ UNCHANGED <<procs, started, hist>>

NoCall ==
    [op |-> "none", req |-> NoBody,
     resp |-> Response(0, <<>>), trace |-> <<>>]

Init ==
    /\ bucketExists \in BOOLEAN
    /\ store = EmptyStore
    /\ last = NoCall
    /\ saved = [k \in Keys |-> NotSaved]
    /\ procs = [p \in Procs |-> Idle]
    /\ started = 0
    /\ hist = NoHistory

Next == Save \/ Retrieve \/ Delete

Spec == Init /\ [][Next]_vars

(***************************************************************************)
(* The service under concurrent requests: every invocation runs its        *)
(* handler one store call at a time, and the calls of different            *)
(* invocations interleave.                                                 *)
(***************************************************************************)
\* Invocations started in one run
MaxCalls == 2

ConcurrentUserIds == { <<"u1">> }
ConcurrentDocIds == { <<"a">>, <<"a", "b">> }

ConcurrentSaves ==
    { Body(AllFields, u, d, "resume.pdf", p.chunks, p.metadata) :
        u \in ConcurrentUserIds, d \in ConcurrentDocIds, p \in Payloads }
    \cup { [BaseSave EXCEPT !.chunks = JList(<<>>)] }

ConcurrentQueries ==
    { Body({"userId", "documentId"}, u, d, "", JNull, JNull) :
        u \in ConcurrentUserIds, d \in ConcurrentDocIds }
    \cup { Body({"userId"}, u, NoId, "", JNull, JNull) : u \in ConcurrentUserIds }
    \cup { NoBody }

Active(i) == i.pc \notin {"idle", "done"}

At(p, op, pc) == procs[p].op = op /\ procs[p].pc = pc

\* The prefix a Delete lists (lines 72 and 92)
DeletePrefix(req) ==
    IF Truthy(req.documentId) THEN DocumentPrefix(req.userId, req.documentId)
    ELSE UserPrefix(req.userId)

\* A Save and a Delete of its prefix are both under way
Overlapping(ps) ==
    \E p \in Procs, q \in Procs :
        /\ ps[p].op = "save" /\ Active(ps[p])
        /\ ps[q].op = "delete" /\ Active(ps[q])
        /\ StartsWith(ChunksBlobName(ps[p].req.userId, ps[p].req.documentId),
                      DeletePrefix(ps[q].req))

Step(p, inv, st, bkt, removed) ==
    /\ procs' = [procs EXCEPT ![p] = inv]
    /\ store' = st
    /\ bucketExists' = bkt
    /\ hist' = [deleted |-> hist.deleted \/ removed,
                overlap |-> hist.overlap \/ Overlapping([procs EXCEPT ![p] = inv])]
    /\ UNCHANGED <<last, saved>>

Goto(p, pc) == [procs[p] EXCEPT !.pc = pc]
Return(p, resp) == [procs[p] EXCEPT !.pc = "done", !.resp = resp, !.blobs = <<>>]

\* save-embeddings/main.py lines 62-84
StartSave(p) ==
    /\ ~Active(procs[p]) /\ started < MaxCalls
    /\ started' = started + 1
    /\ \E req \in ConcurrentSaves, fault \in SaveFaults :
         LET inv == Invocation("save", req, fault, "bucket.exists", <<>>, 0, Response(0, <<>>))
         IN  IF SaveValidation(req) # <<>>
             THEN Step(p, [inv EXCEPT !.pc = "done", !.resp = Response(400, SaveValidation(req))],
                       store, bucketExists, FALSE)
             ELSE Step(p, inv, store, bucketExists, FALSE)

\* line 89; the exception of line 92 goes on to the uploads
SaveBucketExists(p) ==
    /\ At(p, "save", "bucket.exists")
    /\ UNCHANGED started
    /\ Step(p, Goto(p, IF procs[p].fault # "bucket.exists" /\ ~bucketExists
                       THEN "create_bucket" ELSE "upload_chunks"),
            store, bucketExists, FALSE)

\* line 90: raises when the store refuses or when another invocation has
\* created the bucket meanwhile; both are swallowed at line 92
SaveCreateBucket(p) ==
    /\ At(p, "save", "create_bucket")
    /\ UNCHANGED started
    /\ Step(p, Goto(p, "upload_chunks"), store,
            bucketExists \/ procs[p].fault # "create_bucket", FALSE)

\* lines 98-103
SaveUploadChunks(p) ==
    /\ At(p, "save", "upload_chunks")
    /\ UNCHANGED started
    /\ IF ~bucketExists \/ procs[p].fault = "upload_chunks"
       THEN Step(p, Return(p, Response(500, <<"storage error">>)), store, bucketExists, FALSE)
       ELSE Step(p, Goto(p, "upload_metadata"), UploadChunks(procs[p].req, store),
                 bucketExists, FALSE)

\* lines 107-129
SaveUploadMetadata(p) ==
    /\ At(p, "save", "upload_metadata")
    /\ UNCHANGED started
    /\ IF procs[p].fault = "upload_metadata"
       THEN Step(p, Return(p, Response(500, <<"storage error">>)), store, bucketExists, FALSE)
       ELSE Step(p, Return(p, Stored(procs[p].req)), UploadMetadata(procs[p].req, store),
                 bucketExists, FALSE)

\* retrieve- and delete-embeddings/main.py up to the bucket test
StartQuery(p) ==
    /\ ~Active(procs[p]) /\ started < MaxCalls
    /\ started' = started + 1
    /\ \E op \in {"retrieve", "delete"}, req \in ConcurrentQueries :
         LET inv == Invocation(op, req, "none", "bucket.exists", <<>>, 0, Response(0, <<>>))
         IN  IF QueryValidation(req) # <<>>
             THEN Step(p, [inv EXCEPT !.pc = "done", !.resp = Response(400, QueryValidation(req))],
                       store, bucketExists, FALSE)
             ELSE Step(p, inv, store, bucketExists, FALSE)

\* delete-embeddings/main.py lines 58-64
DeleteBucketExists(p) ==
    /\ At(p, "delete", "bucket.exists")
    /\ UNCHANGED started
    /\ Step(p, IF bucketExists THEN Goto(p, "list") ELSE Return(p, Deleted(0)),
            store, bucketExists, FALSE)

\* lines 72-79 and 92-101: the listing and the documents counted in it
DeleteList(p) ==
    /\ At(p, "delete", "list")
    /\ UNCHANGED started
    /\ LET blobs == ListBlobs(store, DeletePrefix(procs[p].req))
           single == Truthy(procs[p].req.documentId)
           count == IF single THEN 1
                    ELSE Cardinality({n[4] : n \in Range(WithDocumentSegment(blobs))})
       IN  Step(p, IF blobs = <<>>
                   THEN Return(p, IF single THEN Response(404, <<"Document not found">>)
                                  ELSE Deleted(0))
                   ELSE [procs[p] EXCEPT !.pc = "delete", !.blobs = blobs, !.count = count],
                store, bucketExists, FALSE)

\* lines 81-82 and 104-105: one blob.delete(); it raises for a blob that
\* is gone and when the store refuses the call
DeleteBlob(p) ==
    /\ At(p, "delete", "delete")
    /\ UNCHANGED started
    /\ \E refused \in BOOLEAN :
         LET b == Head(procs[p].blobs)
             rest == Tail(procs[p].blobs)
         IN  IF refused \/ b \notin DOMAIN store
             THEN Step(p, Return(p, Response(500, <<"storage error">>)),
                       store, bucketExists, FALSE)
             ELSE Step(p, IF rest = <<>> THEN Return(p, Deleted(procs[p].count))
                          ELSE [procs[p] EXCEPT !.blobs = rest],
                       DeleteBlobs(store, {b}), bucketExists, TRUE)

\* retrieve-embeddings/main.py lines 72-85
RetrieveBucketExists(p) ==
    /\ At(p, "retrieve", "bucket.exists")
    /\ UNCHANGED started
    /\ Step(p, IF ~bucketExists THEN Return(p, Retrieved(<<>>, <<>>))
               ELSE IF Truthy(procs[p].req.documentId) THEN Goto(p, "chunks.exists")
               ELSE Goto(p, "list"),
            store, bucketExists, FALSE)

\* lines 90-97
RetrieveChunksExists(p) ==
    /\ At(p, "retrieve", "chunks.exists")
    /\ UNCHANGED started
    /\ Step(p, IF ChunksBlobName(procs[p].req.userId, procs[p].req.documentId) \in DOMAIN store
               THEN Goto(p, "chunks.download")
               ELSE Return(p, Response(404, <<"Document not found">>)),
            store, bucketExists, FALSE)

\* lines 99-101: download_as_text raises for a blob that is gone
RetrieveChunksDownload(p) ==
    /\ At(p, "retrieve", "chunks.download")
    /\ UNCHANGED started
    /\ LET name == ChunksBlobName(procs[p].req.userId, procs[p].req.documentId)
       IN  Step(p, IF name \in DOMAIN store
                   THEN [procs[p] EXCEPT !.pc = "metadata.exists",
                                         !.resp.chunks = JsonLoads(store[name]).items]
                   ELSE Return(p, Response(500, <<"storage error">>)),
                store, bucketExists, FALSE)

\* lines 104-107
RetrieveMetadataExists(p) ==
    /\ At(p, "retrieve", "metadata.exists")
    /\ UNCHANGED started
    /\ Step(p, IF MetadataBlobName(procs[p].req.userId, procs[p].req.documentId) \in DOMAIN store
               THEN Goto(p, "metadata.download")
               ELSE Return(p, Retrieved(procs[p].resp.chunks, <<>>)),
            store, bucketExists, FALSE)

\* lines 108-110 and 149-155
RetrieveMetadataDownload(p) ==
    /\ At(p, "retrieve", "metadata.download")
    /\ UNCHANGED started
    /\ LET name == MetadataBlobName(procs[p].req.userId, procs[p].req.documentId)
       IN  Step(p, IF name \in DOMAIN store
                   THEN Return(p, Retrieved(procs[p].resp.chunks, <<JsonLoads(store[name])>>))
                   ELSE Return(p, Response(500, <<"storage error">>)),
                store, bucketExists, FALSE)

\* lines 136-145: the blobs the loop downloads, in its order
RECURSIVE Downloads(_, _)
Downloads(q, docs) ==
    IF docs = <<>> THEN <<>>
    ELSE LET c == DocumentFile(q, docs[1], "chunks.json")
             m == DocumentFile(q, docs[1], "metadata.json")
         IN  (IF c = NoId THEN <<>> ELSE <<c>>) \o (IF m = NoId THEN <<>> ELSE <<m>>)
             \o Downloads(q, Tail(docs))

\* lines 118-133
RetrieveList(p) ==
    /\ At(p, "retrieve", "list")
    /\ UNCHANGED started
    /\ LET q == WithDocumentSegment(ListBlobs(store, UserPrefix(procs[p].req.userId)))
           blobs == Downloads(q, DocumentOrder(q, {}))
       IN  Step(p, IF blobs = <<>> THEN Return(p, Retrieved(<<>>, <<>>))
                   ELSE [procs[p] EXCEPT !.pc = "download", !.blobs = blobs],
                store, bucketExists, FALSE)

\* lines 137-145, one download_as_text()
RetrieveDownload(p) ==
    /\ At(p, "retrieve", "download")
    /\ UNCHANGED started
    /\ LET b == Head(procs[p].blobs)
           rest == Tail(procs[p].blobs)
           got == IF b \notin DOMAIN store THEN procs[p].resp
                  ELSE IF b[5] = "chunks.json"
                  THEN [procs[p].resp EXCEPT
                            !.chunks = procs[p].resp.chunks \o JsonLoads(store[b]).items]
                  ELSE [procs[p].resp EXCEPT
                            !.metadata = Append(procs[p].resp.metadata, JsonLoads(store[b]))]
       IN  Step(p, IF b \notin DOMAIN store
                   THEN Return(p, Response(500, <<"storage error">>))
                   ELSE IF rest = <<>> THEN Return(p, Retrieved(got.chunks, got.metadata))
                   ELSE [procs[p] EXCEPT !.blobs = rest, !.resp = got],
                store, bucketExists, FALSE)

ConcurrentInit ==
    /\ bucketExists \in BOOLEAN
    /\ store = EmptyStore
    /\ last = NoCall
    /\ saved = [k \in Keys |-> NotSaved]
    /\ procs = [p \in Procs |-> Idle]
    /\ started = 0
    /\ hist = NoHistory

ConcurrentNext ==
    \E p \in Procs :
        \/ StartSave(p)
        \/ SaveBucketExists(p)
        \/ SaveCreateBucket(p)
        \/ SaveUploadChunks(p)
        \/ SaveUploadMetadata(p)
        \/ StartQuery(p)
        \/ DeleteBucketExists(p)
        \/ DeleteList(p)
        \/ DeleteBlob(p)
        \/ RetrieveBucketExists(p)
        \/ RetrieveChunksExists(p)
        \/ RetrieveChunksDownload(p)
        \/ RetrieveMetadataExists(p)
        \/ RetrieveMetadataDownload(p)
        \/ RetrieveList(p)
        \/ RetrieveDownload(p)

SpecConcurrent == ConcurrentInit /\ [][ConcurrentNext]_vars

(***************************************************************************)
(* Properties                                                              *)
(***************************************************************************)
Served(op) == last.op = op /\ "userId" \in last.req.present

\* The documents of user u that hold what a successful Save wrote
SavedDocs(u) == {d \in DocIds : saved[<<u, d>>].ok}

RECURSIVE SavedChunkCount(_, _)
SavedChunkCount(u, ds) ==
    IF ds = {} THEN 0
    ELSE LET d == CHOOSE x \in ds : TRUE
         IN  Len(saved[<<u, d>>].chunks.items) + SavedChunkCount(u, ds \ {d})

Occurs(part, whole) ==
    \E i \in 0..(Len(whole) - Len(part)) : SubSeq(whole, i + 1, i + Len(part)) = part

\* C1 (as claimed): for every documentId a Save accepts, a successful Save
\* followed at once by a Retrieve that supplies the same userId and
\* documentId returns success with exactly the saved chunks in their order,
\* a metadata list holding exactly the saved metadata, and documentsCount = 1.
C1_SaveThenRetrieveAnyId ==
    [][(/\ last.op = "save" /\ last.resp.status = 200
        /\ last'.op = "retrieve"
        /\ last'.req.present = {"userId", "documentId"}
        /\ last'.req.userId = last.req.userId
        /\ last'.req.documentId = last.req.documentId)
       => /\ last'.resp.status = 200
          /\ last'.resp.chunks = last.req.chunks.items
          /\ last'.resp.metadata = <<last.req.metadata>>
          /\ last'.resp.documentsCount = 1]_vars

\* C1 for a documentId that is not the empty string: a single-document
\* Retrieve of a document whose latest successful Save has not been written
\* over or deleted since returns exactly what that Save held; after a
\* second Save these are the second Save's.
C1_SaveThenRetrieve ==
    (/\ Served("retrieve")
     /\ Truthy(last.req.documentId)
     /\ saved[<<last.req.userId, last.req.documentId>>].ok)
    => LET was == saved[<<last.req.userId, last.req.documentId>>]
       IN  /\ last.resp.status = 200 /\ last.resp.success
           /\ last.resp.chunks = was.chunks.items
           /\ last.resp.metadata = <<was.metadata>>
           /\ last.resp.documentsCount = 1

C1_Witness ==
    /\ Served("retrieve")
    /\ last.req.documentId = <<"a", "b">>
    /\ saved[<<last.req.userId, last.req.documentId>>].ok
    /\ Len(last.resp.chunks) = MaxChunks
    /\ last.resp.metadata = <<JDict(<<>>)>>

\* C2 (as claimed): a Save body whose userId, documentId or fileName is the
\* empty string, whose chunks is empty or whose metadata is an empty record
\* is answered 400 without any store access.
C2_EmptyFieldsRejected ==
    (/\ last.op = "save"
     /\ last.req.present = AllFields
     /\ \/ last.req.userId = <<"">>
        \/ last.req.documentId = <<"">>
        \/ last.req.fileName = ""
        \/ last.req.chunks = JList(<<>>)
        \/ last.req.metadata = JDict(<<>>))
    => (last.resp.status = 400 /\ last.trace = <<>>)

\* C3: a Save body that lacks one required field, or whose chunks is an
\* empty array, is answered 400 with success false and an error naming the
\* field, without any store access: no object is written and the bucket is
\* not created.
C3_Answer ==
    /\ \A f \in AllFields :
         (last.op = "save" /\ last.req.present = AllFields \ {f})
         => /\ last.resp.status = 400 /\ ~last.resp.success
            /\ last.resp.error = <<"Missing required field", f>>
            /\ last.trace = <<>>
    /\ (last.op = "save" /\ last.req.present = AllFields /\ last.req.chunks = JList(<<>>))
       => /\ last.resp.status = 400 /\ ~last.resp.success
          /\ last.resp.error = <<"chunks array is empty">>
          /\ last.trace = <<>>

C3_Frame ==
    (/\ last'.op = "save"
     /\ \/ \E f \in AllFields : last'.req.present = AllFields \ {f}
        \/ last'.req.chunks = JList(<<>>))
    => (store' = store /\ bucketExists' = bucketExists)

C3_MalformedSave == [] C3_Answer /\ [][C3_Frame]_vars

C3_Witness ==
    /\ last.op = "save"
    /\ last.req.present = AllFields \ {"metadata"}
    /\ last.resp.status = 400
    /\ ~bucketExists

EmptyResult == Retrieved(<<>>, <<>>)

\* C4 (as claimed): whatever the store holds, bucket or no bucket, a Retrieve
\* that names a document without a stored chunks.json is answered 404.
C4_AlwaysNotFound ==
    (/\ Served("retrieve")
     /\ "documentId" \in last.req.present
     /\ ChunksBlobName(last.req.userId, last.req.documentId) \notin DOMAIN store)
    => (last.resp.status = 404 /\ ~last.resp.success)

\* C4 (amended): while the bucket exists, a Retrieve that names a non-empty
\* documentId without a stored chunks.json is answered 404 with success
\* false, never with a success result; while the bucket does not exist the
\* same request is answered with the empty success result.  A documentId
\* that is the empty string selects all-documents mode, which succeeds.
C4_NotFoundWhenBucketExists ==
    /\ (/\ Served("retrieve")
        /\ Truthy(last.req.documentId)
        /\ ChunksBlobName(last.req.userId, last.req.documentId) \notin DOMAIN store)
       => IF bucketExists
          THEN last.resp.status = 404 /\ ~last.resp.success
          ELSE last.resp = EmptyResult
    /\ (Served("retrieve") /\ last.req.documentId = <<"">>)
       => (last.resp.status = 200 /\ last.resp.success)

C4_Witness ==
    /\ Served("retrieve")
    /\ last.req.documentId = <<"a">>
    /\ last.resp.status = 404
    /\ MetadataBlobName(last.req.userId, <<"a", "b">>) \in DOMAIN store

\* C5 (as claimed): whatever the store holds, bucket or no bucket, a Delete
\* that names a document of which no object is stored is answered 404 and
\* leaves the store as it was.
C5_AlwaysNotFound ==
    [][(/\ last'.op = "delete" /\ "userId" \in last'.req.present
        /\ "documentId" \in last'.req.present
        /\ ChunksBlobName(last'.req.userId, last'.req.documentId) \notin DOMAIN store
        /\ MetadataBlobName(last'.req.userId, last'.req.documentId) \notin DOMAIN store)
       => (last'.resp.status = 404 /\ store' = store)]_vars

\* C5 (amended): while the bucket exists, a Delete that names a non-empty
\* documentId under whose prefix users/{userId}/documents/{documentId}/ no
\* object is stored is answered 404 with success false; while the bucket
\* does not exist it is answered success with documentsDeleted = 0; in both
\* cases the store is left as it was.  A documentId that is the empty string
\* selects all-documents mode, which succeeds.
C5_NotFoundWhenBucketExists ==
    [][/\ (/\ last'.op = "delete" /\ "userId" \in last'.req.present
           /\ Truthy(last'.req.documentId)
           /\ \A n \in DOMAIN store :
                ~StartsWith(n, DocumentPrefix(last'.req.userId, last'.req.documentId)))
          => /\ store' = store
             /\ bucketExists' = bucketExists
             /\ IF bucketExists
                THEN last'.resp.status = 404 /\ ~last'.resp.success
                ELSE last'.resp = Deleted(0)
       /\ (/\ last'.op = "delete" /\ "userId" \in last'.req.present
           /\ last'.req.documentId = <<"">>)
          => (last'.resp.status = 200 /\ last'.resp.success)]_vars

C5_Witness ==
    /\ Served("delete")
    /\ last.req.documentId = <<"a", "b">>
    /\ last.resp.status = 404
    /\ ChunksBlobName(last.req.userId, <<"a">>) \in DOMAIN store

\* C6 (as claimed): a Delete in all-documents mode for a user whose store
\* content is the N documents of successful Saves is answered success with
\* documentsDeleted = N, and an all-documents Retrieve for a user without
\* documents is answered with the empty success result.
C6_DeleteAllCountsDocuments ==
    /\ [][(/\ last'.op = "delete"
           /\ last'.req.present = {"userId"})
          => /\ last'.resp.status = 200
             /\ last'.resp.documentsDeleted = Cardinality(SavedDocs(last'.req.userId))
             /\ \A d \in DocIds : ~saved'[<<last'.req.userId, d>>].ok]_vars
    /\ []((/\ last.op = "retrieve" /\ last.req.present = {"userId"}
           /\ SavedDocs(last.req.userId) = {})
          => last.resp = EmptyResult)

\* C7 (as claimed): an all-documents Retrieve for a user with k successfully
\* saved documents returns documentsCount = k, k metadata entries, and a
\* chunk sequence as long as the saved arrays together in which every saved
\* array occurs contiguously.
C7_RetrieveAllReturnsEveryDocument ==
    (/\ last.op = "retrieve"
     /\ last.req.present = {"userId"})
    => LET docs == SavedDocs(last.req.userId)
       IN  /\ last.resp.status = 200
           /\ last.resp.documentsCount = Cardinality(docs)
           /\ Len(last.resp.metadata) = Cardinality(docs)
           /\ Len(last.resp.chunks) = SavedChunkCount(last.req.userId, docs)
           /\ \A d \in docs :
                Occurs(saved[<<last.req.userId, d>>].chunks.items, last.resp.chunks)

\* C9 (as claimed): a Delete that supplies a documentId removes no object
\* of another document or another user.
C9_DeleteLeavesOtherDocuments ==
    [][(/\ last'.op = "delete" /\ "userId" \in last'.req.present
        /\ "documentId" \in last'.req.present)
       => \A n \in DOMAIN store :
            \/ n \in DOMAIN store'
            \/ n = ChunksBlobName(last'.req.userId, last'.req.documentId)
            \/ n = MetadataBlobName(last'.req.userId, last'.req.documentId)]_vars

Returned(p, op) == procs[p].op = op /\ procs[p].pc = "done"

\* Two Saves of the same document were the only invocations and both
\* returned success
BothSaved ==
    /\ started = 2
    /\ Returned("A", "save") /\ procs["A"].resp.status = 200
    /\ Returned("B", "save") /\ procs["B"].resp.status = 200
    /\ procs["A"].req.userId = procs["B"].req.userId
    /\ procs["A"].req.documentId = procs["B"].req.documentId

\* C8: after two concurrent Saves A and B of one document that both
\* returned success, chunks.json holds exactly A's or exactly B's chunks and
\* metadata.json holds exactly A's or exactly B's metadata; the pair is not
\* atomic: chunks of one call with metadata of the other is reachable.
C8_LastWriteWinsPerObject ==
    BothSaved
    => LET chunksName == ChunksBlobName(procs["A"].req.userId, procs["A"].req.documentId)
           metaName == MetadataBlobName(procs["A"].req.userId, procs["A"].req.documentId)
       IN  /\ chunksName \in DOMAIN store
           /\ metaName \in DOMAIN store
           /\ JsonLoads(store[chunksName]) \in {procs["A"].req.chunks, procs["B"].req.chunks}
           /\ JsonLoads(store[metaName]) \in {procs["A"].req.metadata, procs["B"].req.metadata}

C8_Witness ==
    /\ BothSaved
    /\ procs["A"].req.chunks # procs["B"].req.chunks
    /\ procs["A"].req.metadata # procs["B"].req.metadata
    /\ JsonLoads(store[ChunksBlobName(procs["A"].req.userId, procs["A"].req.documentId)])
         = procs["A"].req.chunks
    /\ JsonLoads(store[MetadataBlobName(procs["A"].req.userId, procs["A"].req.documentId)])
         = procs["B"].req.metadata

\* A metadata.json without the chunks.json of the same document
MetadataOnly(st) ==
    \E n \in DOMAIN st :
        /\ n[Len(n)] = "metadata.json"
        /\ [n EXCEPT ![Len(n)] = "chunks.json"] \notin DOMAIN st

\* C10 (as claimed): a metadata.json without its chunks.json is there only
\* when a Delete has interleaved with a Save on the same prefix.
C10_BrokenOnlyByInterleaving == MetadataOnly(store) => hist.overlap

\* The same with every invocation returned: a Delete on its own whose second
\* blob.delete() is refused leaves metadata.json alone for good
C10_BrokenAtRest ==
    (MetadataOnly(store) /\ \A p \in Procs : ~Active(procs[p])) => hist.overlap

\* C10 (amended): as long as no Delete has removed an object, under every
\* interleaving of Saves whose store calls may fail, metadata.json exists
\* only if chunks.json of the same document exists; a single-document
\* Retrieve that returns success never returns metadata without chunks, and
\* returns the chunks with an empty metadata list and documentsCount = 0
\* when a failed Save left chunks.json alone.
\* Once a Delete removes objects the invariant can be broken, with or
\* without a Save under way: Delete removes chunks.json before
\* metadata.json.
C10_ChunksBeforeMetadata ==
    /\ ~hist.deleted => ~MetadataOnly(store)
    /\ \A p \in Procs :
         (/\ Returned(p, "retrieve") /\ Truthy(procs[p].req.documentId)
          /\ procs[p].resp.status = 200)
         => /\ procs[p].resp.chunks = <<>> => procs[p].resp.metadata = <<>>
            /\ procs[p].resp.documentsCount = Len(procs[p].resp.metadata)
            /\ procs[p].resp.documentsCount \in {0, 1}
            /\ (~hist.deleted /\ procs[p].resp.chunks # <<>>)
               => ChunksBlobName(procs[p].req.userId, procs[p].req.documentId)
                    \in DOMAIN store

\* A Save failed on its second upload and a single-document Retrieve of the
\* document returned the chunks without metadata
C10_Witness ==
    \E p \in Procs, q \in Procs :
        /\ Returned(p, "save") /\ procs[p].resp.status = 500
        /\ procs[p].fault = "upload_metadata"
        /\ Returned(q, "retrieve") /\ procs[q].req.documentId = procs[p].req.documentId
        /\ procs[q].resp.status = 200
        /\ procs[q].resp.chunks = procs[p].req.chunks.items
        /\ procs[q].resp.metadata = <<>>
        /\ procs[q].resp.documentsCount = 0
        /\ ~hist.deleted

====
